---- MODULE Spec2Model ----
(***************************************************************************)
(* A model of the two tuner programs of the repository:                    *)
(*   src/tuner.py  the command-line tuner: a main thread (start, sleep     *)
(*                 loop, Ctrl+C, stop) and the worker thread running       *)
(*                 Tuner._process_audio;                                   *)
(*   src/test.py   the page served by handle_index: the start/stop button  *)
(*                 handler, initAudio, the analyze() animation-frame       *)
(*                 callback, detectPitch and getNote.                      *)
(*                                                                         *)
(* Numbers.  The programs compute in IEEE doubles; the model computes in   *)
(* exact rationals.  A frequency is a record [n |-> a, d |-> b] standing   *)
(* for a/b Hz, and b = 0 stands for JavaScript's +Infinity (the value of   *)
(* sampleRate / 0).  Reference frequencies of the note table are integers  *)
(* in hundredths of a hertz.  Comparisons are made by cross-multiplying.   *)
(***************************************************************************)
EXTENDS Integers, Sequences, FiniteSets, TLC

VARIABLES
    \* ---- which program runs --------------------------------------------
    program,      \* "tuner" (src/tuner.py) | "browser" (the page of src/test.py) | "mapper"
    \* ---- src/tuner.py ---------------------------------------------------
    running,      \* Tuner.running
    stream,       \* Tuner.stream: "none" | "open" | "stopped" | "closed"
    thread,       \* Tuner.thread: "unset" | "started"
    pa,           \* Tuner.p: "ready" | "terminated"
    mpc,          \* position of the main thread
    wpc,          \* position of the worker thread (_process_audio)
    data,         \* the worker's local `data`: the frame read last
    \* ---- the page of src/test.py ----------------------------------------
    isRunning,    \* let isRunning
    buttonText,   \* startButton.textContent
    audioContext, \* let audioContext: 0 while undefined, else its sampleRate
    analyser,     \* let analyser: "undefined" | "unconnected" | "connected"
    dataArray,    \* let dataArray: << >> while undefined, else its samples
    awaiting,     \* click handlers suspended at `await getUserMedia`
    raf,          \* analyze callbacks scheduled with requestAnimationFrame
    console,      \* the message logged last
    \* ---- both: the output sink and the history of estimates --------------
    sink,         \* what was reported: the printed lines / the DOM updates
    estimates,    \* the frequency estimate of every analysis cycle so far
    sinkAtClear,  \* Len(sink) when stop() cleared the running flag, else -1
    \* ---- the Note Mapper applied to one frequency ------------------------
    frequency,    \* the argument
    pyNote,       \* the result of Tuner._freq_to_note, "none" before the call
    jsNote        \* the result of getNote, with note "none" before the call

vars == <<program, running, stream, thread, pa, mpc, wpc, data,
          isRunning, buttonText, audioContext, analyser, dataArray, awaiting,
          raf, console, sink, estimates, sinkAtClear, frequency, pyNote, jsNote>>

tunerVars   == <<running, stream, thread, pa, mpc, wpc, data>>
browserVars == <<isRunning, buttonText, audioContext, analyser, dataArray,
                 awaiting, raf, console>>
mapperVars  == <<frequency, pyNote, jsNote>>

(***************************************************************************)
(* Bounds of the model.                                                    *)
(***************************************************************************)
\* Analysis cycles a behaviour may hold (the loops of both programs are endless).
MaxCycles == 2
\* Largest magnitude of a probed spectrum bin (tuner.py frames).
MaxMag == 1
\* Samples of one frame of the page (analyser.frequencyBinCount is 1024).
FrameLen == 8
\* Largest sample amplitude of a frame of the page.
MaxAmp == 1
\* Click handlers that may be suspended in getUserMedia at once.
MaxAwaiting == 2
\* The Note Mapper is applied to 0.01 Hz .. MaxCentiHz/100 Hz.
MaxCentiHz == 50000

(***************************************************************************)
(* Program constants.                                                      *)
(***************************************************************************)
CHUNK == 2048
RATE == 44100
\* `peak_freq > 20` and `frequency > 20`
MinFrequency == 20

\* NOTE_FREQUENCIES, in insertion order (the order of dict.items() and, the
\* literal being passed through json.dumps, of Object.entries(noteFreqs)).
\* freq is in hundredths of a hertz.
NOTE_FREQUENCIES ==
    << [note |-> "C0", freq |-> 1635], [note |-> "C#0", freq |-> 1732], [note |-> "D0", freq |-> 1835], [note |-> "D#0", freq |-> 1945],
       [note |-> "E0", freq |-> 2060], [note |-> "F0", freq |-> 2183], [note |-> "F#0", freq |-> 2312], [note |-> "G0", freq |-> 2450],
       [note |-> "G#0", freq |-> 2596], [note |-> "A0", freq |-> 2750], [note |-> "A#0", freq |-> 2914], [note |-> "B0", freq |-> 3087],
       [note |-> "C1", freq |-> 3270], [note |-> "C#1", freq |-> 3465], [note |-> "D1", freq |-> 3671], [note |-> "D#1", freq |-> 3889],
       [note |-> "E1", freq |-> 4120], [note |-> "F1", freq |-> 4365], [note |-> "F#1", freq |-> 4625], [note |-> "G1", freq |-> 4900],
       [note |-> "G#1", freq |-> 5191], [note |-> "A1", freq |-> 5500], [note |-> "A#1", freq |-> 5827], [note |-> "B1", freq |-> 6174],
       [note |-> "C2", freq |-> 6541], [note |-> "C#2", freq |-> 6930], [note |-> "D2", freq |-> 7342], [note |-> "D#2", freq |-> 7778],
       [note |-> "E2", freq |-> 8241], [note |-> "F2", freq |-> 8731], [note |-> "F#2", freq |-> 9250], [note |-> "G2", freq |-> 9800],
       [note |-> "G#2", freq |-> 10383], [note |-> "A2", freq |-> 11000], [note |-> "A#2", freq |-> 11654], [note |-> "B2", freq |-> 12347],
       [note |-> "C3", freq |-> 13081], [note |-> "C#3", freq |-> 13859], [note |-> "D3", freq |-> 14683], [note |-> "D#3", freq |-> 15556],
       [note |-> "E3", freq |-> 16481], [note |-> "F3", freq |-> 17461], [note |-> "F#3", freq |-> 18500], [note |-> "G3", freq |-> 19600],
       [note |-> "G#3", freq |-> 20765], [note |-> "A3", freq |-> 22000], [note |-> "A#3", freq |-> 23308], [note |-> "B3", freq |-> 24694],
       [note |-> "C4", freq |-> 26163], [note |-> "C#4", freq |-> 27718], [note |-> "D4", freq |-> 29366], [note |-> "D#4", freq |-> 31113],
       [note |-> "E4", freq |-> 32963], [note |-> "F4", freq |-> 34923], [note |-> "F#4", freq |-> 36999], [note |-> "G4", freq |-> 39200],
       [note |-> "G#4", freq |-> 41530], [note |-> "A4", freq |-> 44000], [note |-> "A#4", freq |-> 46616], [note |-> "B4", freq |-> 49388] >>

Abs(x) == IF x < 0 THEN -x ELSE x

\* JavaScript's Infinity, and a frequency given in hundredths of a hertz.
Infinity == [n |-> 1, d |-> 0]
CentiHz(c) == [n |-> c, d |-> 100]
IsFinite(f) == f.d # 0

(***************************************************************************)
(* Tuner._freq_to_note: min(NOTE_FREQUENCIES.items(), key = |frequency -   *)
(* x[1]|)[0].  Python's min keeps the first item whose key is smallest: an *)
(* item replaces the best so far only when its key is strictly smaller.    *)
(* The argument is finite (a bin frequency).                               *)
(***************************************************************************)
\* key(x) < key(best), both keys scaled by 100 * f.d
PyKeyLess(x, best, f) ==
    Abs(100 * f.n - x.freq * f.d) < Abs(100 * f.n - best.freq * f.d)

\* one comparison of min: the item replaces the best so far
PyStep(best, i, f) ==
    IF PyKeyLess(NOTE_FREQUENCIES[i], best, f) THEN NOTE_FREQUENCIES[i] ELSE best

\* The scan over the items i .. hi, and over the whole table in runs of ten
\* items.  (The runs, and the tests of best.freq, change nothing of the
\* result: they make TLC evaluate the value scanned so far before it goes
\* on, which keeps its evaluation stack shallow.)
RECURSIVE PyScan(_, _, _, _)
PyScan(best, i, hi, f) ==
    IF i > hi THEN best
    ELSE IF best.freq > 0 THEN PyScan(PyStep(best, i, f), i + 1, hi, f) ELSE best

RECURSIVE PyMin(_, _, _)
PyMin(best, i, f) ==
    IF i > Len(NOTE_FREQUENCIES) THEN best
    ELSE IF best.freq > 0
        THEN PyMin(PyScan(best, i,
                          IF i + 9 > Len(NOTE_FREQUENCIES)
                              THEN Len(NOTE_FREQUENCIES) ELSE i + 9, f),
                   i + 10, f)
        ELSE best

freq_to_note(f) == PyMin(NOTE_FREQUENCIES[1], 2, f).note

(***************************************************************************)
(* getNote: Object.entries(noteFreqs).reduce(step, {note: '', freq:        *)
(* Infinity}) with                                                         *)
(*   step(closest, [note, freq]) =                                         *)
(*     Math.abs(freq - frequency) < Math.abs(freq - closest.freq)          *)
(*         ? {note, freq} : closest                                        *)
(* The right-hand side is the distance of the entry to the closest entry   *)
(* so far, as the code has it.  closest.freq is a rational (Infinity at    *)
(* the start), the entry's freq hundredths of a hertz.                     *)
(***************************************************************************)
\* Faulty variant of JsCloser: `<=` for `<`, so that a later entry at the same
\* distance replaces the closest so far.
JsCloserOrEqual(freq, frequency_, closestFreq) ==
    /\ IsFinite(frequency_)
    /\ \/ ~IsFinite(closestFreq)
       \/ Abs(freq * frequency_.d - 100 * frequency_.n) * closestFreq.d
            <= Abs(freq * closestFreq.d - 100 * closestFreq.n) * frequency_.d

\* Math.abs(freq - frequency) < Math.abs(freq - closestFreq) for a finite freq:
\* an infinite left side is below nothing, a finite one is below Infinity.
JsCloser(freq, frequency_, closestFreq) ==
    /\ IsFinite(frequency_)
    /\ \/ ~IsFinite(closestFreq)
       \/ Abs(freq * frequency_.d - 100 * frequency_.n) * closestFreq.d
            < Abs(freq * closestFreq.d - 100 * closestFreq.n) * frequency_.d

\* the callback of reduce on the entry i
JsStep(closest, i, f) ==
    IF JsCloser(NOTE_FREQUENCIES[i].freq, f, closest.freq)
        THEN [note |-> NOTE_FREQUENCIES[i].note,
              freq |-> CentiHz(NOTE_FREQUENCIES[i].freq)]
        ELSE closest

\* reduce over the entries i .. hi, and over the whole table in runs of ten
\* entries (the runs and the tests of closest.freq.d only keep TLC's
\* evaluation stack shallow, as in PyScan)
RECURSIVE JsScan(_, _, _, _)
JsScan(closest, i, hi, f) ==
    IF i > hi THEN closest
    ELSE IF closest.freq.d >= 0
        THEN JsScan(JsStep(closest, i, f), i + 1, hi, f) ELSE closest

RECURSIVE JsReduce(_, _, _)
JsReduce(closest, i, f) ==
    IF i > Len(NOTE_FREQUENCIES) THEN closest
    ELSE IF closest.freq.d >= 0
        THEN JsReduce(JsScan(closest, i,
                             IF i + 9 > Len(NOTE_FREQUENCIES)
                                 THEN Len(NOTE_FREQUENCIES) ELSE i + 9, f),
                      i + 10, f)
        ELSE closest

getNote(f) == JsReduce([note |-> "", freq |-> Infinity], 1, f)

(***************************************************************************)
(* The Cents Calculator.  1200 * log2(f / r) is a real number; the model   *)
(* keeps its sign, which is exact: "sharp" above the reference, "flat"     *)
(* below, "exact" on it.  r is in hundredths of a hertz.                   *)
(***************************************************************************)
get_cents_deviation(f, r) ==
    IF 100 * f.n > r * f.d THEN "sharp"
    ELSE IF 100 * f.n < r * f.d THEN "flat" ELSE "exact"

\* getCents(frequency, targetFreq): Infinity / Infinity is NaN, and so are its
\* logarithm and Math.floor of it.
getCents(f, target) ==
    IF ~IsFinite(f) /\ ~IsFinite(target) THEN "NaN"
    ELSE IF ~IsFinite(f) THEN "sharp"
    ELSE IF ~IsFinite(target) THEN "flat"
    ELSE IF f.n * target.d > target.n * f.d THEN "sharp"
    ELSE IF f.n * target.d < target.n * f.d THEN "flat" ELSE "exact"

\* NOTE_FREQUENCIES[note]
NoteFreq(name) ==
    NOTE_FREQUENCIES[CHOOSE i \in 1..Len(NOTE_FREQUENCIES) :
                         NOTE_FREQUENCIES[i].note = name].freq

\* One reported TuningResult, and the line `Error: ...` of the worker.
Result(note, f, cents) == [kind |-> "result", note |-> note, freq |-> f, cents |-> cents]
ErrorLine == [kind |-> "error", note |-> "", freq |-> CentiHz(0), cents |-> ""]

(***************************************************************************)
(* src/tuner.py: the frames, and the spectral-peak estimate.               *)
(*                                                                         *)
(* hann, fft and np.fft.fftfreq are library code.  A frame is given by the *)
(* magnitudes |fft(data * hann)[k]| at the probed bins; every other bin    *)
(* holds 0.  The transform is linear, so a frame of zeros has the zero     *)
(* spectrum.  fftfreq(CHUNK, 1/RATE)[k] is k * RATE / CHUNK for            *)
(* k < CHUNK/2 and negative from CHUNK/2 on, so `freqs > 0` keeps the bins *)
(* 1 .. CHUNK/2 - 1 in this order.                                         *)
(***************************************************************************)
ProbeBins == {1, 20, 41}
Spectra == [ProbeBins -> 0..MaxMag]
Silence == [k \in ProbeBins |-> 0]
NoData == [k \in {} |-> 0]

PositiveBins == 1..(CHUNK \div 2 - 1)

Magnitude(fftData, k) == IF k \in DOMAIN fftData THEN fftData[k] ELSE 0

\* magnitude.argmax(): the first index that holds the maximum.
ArgMax(fftData) ==
    CHOOSE k \in PositiveBins :
        \A j \in PositiveBins :
            /\ Magnitude(fftData, j) <= Magnitude(fftData, k)
            /\ j < k => Magnitude(fftData, j) < Magnitude(fftData, k)

get_peak_frequency(fftData) == [n |-> ArgMax(fftData) * RATE, d |-> CHUNK]

\* `if peak_freq > 20` (the estimate is finite)
PyAboveMinimum(f) == f.n > MinFrequency * f.d

\* The body of one cycle after the read: the sink after the frame is analysed.
PyReport(f) ==
    IF PyAboveMinimum(f)
        THEN Append(sink, Result(freq_to_note(f), f,
                                 get_cents_deviation(f, NoteFreq(freq_to_note(f)))))
        ELSE sink

(***************************************************************************)
(* src/tuner.py: the main thread.  `python tuner.py` constructs the Tuner, *)
(* calls start(), sleeps in a loop, and on Ctrl+C calls stop().            *)
(***************************************************************************)
\* start(), line 40
StartSetRunning ==
    /\ program = "tuner" /\ mpc = "start"
    /\ running' = TRUE
    /\ mpc' = "open"
    /\ UNCHANGED <<program, stream, thread, pa, wpc, data, browserVars, sink,
                   estimates, sinkAtClear, mapperVars>>

\* start(), lines 43-49: p.open returns the stream, or raises (no device); the
\* exception is no KeyboardInterrupt and ends the main thread.
StartOpen ==
    /\ program = "tuner" /\ mpc = "open"
    /\ \/ stream' = "open" /\ mpc' = "spawn"
       \/ stream' = stream /\ mpc' = "crashed"
    /\ UNCHANGED <<program, running, thread, pa, wpc, data, browserVars, sink,
                   estimates, sinkAtClear, mapperVars>>

\* start(), lines 52-53
StartThread ==
    /\ program = "tuner" /\ mpc = "spawn"
    /\ thread' = "started"
    /\ wpc' = "loop"
    /\ mpc' = "sleep"
    /\ UNCHANGED <<program, running, stream, pa, data, browserVars, sink,
                   estimates, sinkAtClear, mapperVars>>

\* Ctrl+C inside the try block (in start() or in the sleep loop): lines 124-126
KeyboardInterrupt ==
    /\ program = "tuner" /\ mpc \in {"start", "open", "spawn", "sleep"}
    /\ mpc' = "stop"
    /\ UNCHANGED <<program, running, stream, thread, pa, wpc, data, browserVars,
                   sink, estimates, sinkAtClear, mapperVars>>

\* stop(), lines 109-110: clears the flag; `self.thread` is an AttributeError
\* when start() never got to set it.
StopClearFlag ==
    /\ program = "tuner" /\ mpc = "stop"
    /\ running' = FALSE
    /\ sinkAtClear' = Len(sink)
    /\ mpc' = IF thread = "unset" THEN "crashed" ELSE "join"
    /\ UNCHANGED <<program, stream, thread, pa, wpc, data, browserVars, sink,
                   estimates, mapperVars>>

\* Faulty variant of Joined: stop() goes on without waiting for the worker.
JoinedWithoutWaiting == TRUE

\* thread.join() returns once the worker has left _process_audio
Joined == wpc \in {"done", "failed"}

\* stop(), line 111
StopJoin ==
    /\ program = "tuner" /\ mpc = "join"
    /\ Joined
    /\ mpc' = "release"
    /\ UNCHANGED <<program, running, stream, thread, pa, wpc, data, browserVars,
                   sink, estimates, sinkAtClear, mapperVars>>

\* stop(), lines 112-113
StopStream ==
    /\ program = "tuner" /\ mpc = "release"
    /\ stream' = IF stream # "none" THEN "stopped" ELSE stream
    /\ mpc' = "close"
    /\ UNCHANGED <<program, running, thread, pa, wpc, data, browserVars, sink,
                   estimates, sinkAtClear, mapperVars>>

\* stop(), lines 112, 114
StopClose ==
    /\ program = "tuner" /\ mpc = "close"
    /\ stream' = IF stream # "none" THEN "closed" ELSE stream
    /\ mpc' = "terminate"
    /\ UNCHANGED <<program, running, thread, pa, wpc, data, browserVars, sink,
                   estimates, sinkAtClear, mapperVars>>

\* stop(), line 115
StopTerminate ==
    /\ program = "tuner" /\ mpc = "terminate"
    /\ pa' = "terminated"
    /\ mpc' = "exited"
    /\ UNCHANGED <<program, running, stream, thread, wpc, data, browserVars,
                   sink, estimates, sinkAtClear, mapperVars>>

(***************************************************************************)
(* src/tuner.py: the worker thread, Tuner._process_audio.                  *)
(***************************************************************************)
\* Faulty variant of LoopCondition: `while True`, the flag is never read.
LoopForever == TRUE

\* `while self.running`
LoopCondition == running

\* line 57: the flag is read here and nowhere else
WorkerCheck ==
    /\ program = "tuner" /\ wpc = "loop"
    /\ wpc' = IF LoopCondition THEN "read" ELSE "done"
    /\ UNCHANGED <<program, running, stream, thread, pa, mpc, data, browserVars,
                   sink, estimates, sinkAtClear, mapperVars>>

\* line 60: stream.read(CHUNK) blocks, then returns a frame
WorkerRead ==
    /\ program = "tuner" /\ wpc = "read"
    /\ stream = "open"
    /\ Len(estimates) < MaxCycles
    /\ \E m \in Spectra : data' = m
    /\ wpc' = "analyze"
    /\ UNCHANGED <<program, running, stream, thread, pa, mpc, browserVars, sink,
                   estimates, sinkAtClear, mapperVars>>

\* line 60 raising (the device fails, or the stream is no longer open), and
\* lines 81-83: the error is printed and the loop is left
WorkerReadError ==
    /\ program = "tuner" /\ wpc = "read"
    /\ sink' = Append(sink, ErrorLine)
    /\ wpc' = "failed"
    /\ UNCHANGED <<program, running, stream, thread, pa, mpc, data, browserVars,
                   estimates, sinkAtClear, mapperVars>>

\* lines 63-79: window, transform, peak, threshold, note, cents, print
WorkerAnalyze ==
    /\ program = "tuner" /\ wpc = "analyze"
    /\ estimates' = Append(estimates, get_peak_frequency(data))
    /\ sink' = PyReport(get_peak_frequency(data))
    /\ wpc' = "loop"
    /\ UNCHANGED <<program, running, stream, thread, pa, mpc, data, browserVars,
                   sinkAtClear, mapperVars>>

TunerNext ==
    \/ StartSetRunning \/ StartOpen \/ StartThread \/ KeyboardInterrupt
    \/ StopClearFlag \/ StopJoin \/ StopStream \/ StopClose \/ StopTerminate
    \/ WorkerCheck \/ WorkerRead \/ WorkerReadError \/ WorkerAnalyze


(***************************************************************************)
(* The page of src/test.py: frames, and the autocorrelation estimate.      *)
(*                                                                         *)
(* A frame is what analyser.getFloatTimeDomainData writes to dataArray.    *)
(* The frames of the model are the silent frame, pulse trains of every     *)
(* period a frame of FrameLen samples can show, and the alternating frame  *)
(* (whose correlation at lag 1 is negative).  An AnalyserNode with no      *)
(* source connected yields the silent frame.                               *)
(***************************************************************************)
Zeros == [i \in 1..FrameLen |-> 0]
PulseTrain(p, a) == [i \in 1..FrameLen |-> IF (i - 1) % p = 0 THEN a ELSE 0]
Alternating(a) == [i \in 1..FrameLen |-> IF i % 2 = 1 THEN a ELSE -a]
Frames ==
    {Zeros}
    \cup {PulseTrain(p, a) : p \in 1..(FrameLen \div 2), a \in 1..MaxAmp}
    \cup {Alternating(a) : a \in 1..MaxAmp}

\* audioContext.sampleRate is the device's.  The low rate is to a frame of
\* FrameLen samples what 8000 Hz is to one of 1024: its longest lags give
\* estimates at and below the 20 Hz threshold.
SampleRates == {40, RATE}

\* the JavaScript quotient a / b of a positive a and a b >= 0
JsDivide(a, b) == IF b = 0 THEN Infinity ELSE [n |-> a, d |-> b]

\* correlations.length: new Float32Array(buffer.length / 2) truncates
HalfLength(buffer) == Len(buffer) \div 2

\* lines 196-200: sum of buffer[i] * buffer[i + lag], i = 0 .. length/2 - 1
\* (JavaScript indexes from 0, the model from 1)
RECURSIVE CorrelationSum(_, _, _)
CorrelationSum(buffer, lag, i) ==
    IF i >= HalfLength(buffer) THEN 0
    ELSE buffer[i + 1] * buffer[i + lag + 1] + CorrelationSum(buffer, lag, i + 1)

Correlation(buffer, lag) == CorrelationSum(buffer, lag, 0)

\* lines 203-211: the lag in 1 .. length/2 - 1 of the first strict maximum,
\* starting from maxCorrelation = 0 and maxLag = 0
RECURSIVE MaxLagFrom(_, _, _, _)
MaxLagFrom(buffer, lag, maxCorrelation, maxLag) ==
    IF lag >= HalfLength(buffer) THEN maxLag
    ELSE IF Correlation(buffer, lag) > maxCorrelation
        THEN MaxLagFrom(buffer, lag + 1, Correlation(buffer, lag), lag)
        ELSE MaxLagFrom(buffer, lag + 1, maxCorrelation, maxLag)

MaxLag(buffer) == MaxLagFrom(buffer, 1, 0, 0)

\* line 213: return sampleRate / maxLag
detectPitch(buffer, sampleRate) == JsDivide(sampleRate, MaxLag(buffer))

\* Faulty variant of JsAboveMinimum: `>=` for `>`.
JsAboveMinimumOrEqual(f) == ~IsFinite(f) \/ f.n >= MinFrequency * f.d

\* `if (frequency > 20)`: Infinity > 20 is true
JsAboveMinimum(f) == ~IsFinite(f) \/ f.n > MinFrequency * f.d

\* lines 176-185: the DOM after the estimate f
JsReport(f) ==
    IF JsAboveMinimum(f)
        THEN Append(sink, Result(getNote(f).note, f, getCents(f, getNote(f).freq)))
        ELSE sink

(***************************************************************************)
(* analyze(), called with isRunning true.  getFloatTimeDomainData throws a *)
(* TypeError when analyser is undefined or dataArray is no Float32Array;   *)
(* otherwise the cycle runs on the frame `frame` and schedules the next    *)
(* callback.                                                               *)
(***************************************************************************)
AnalyzeThrows(analyser_, dataArray_) ==
    analyser_ = "undefined" \/ dataArray_ = << >>

FramesOf(analyser_) == IF analyser_ = "connected" THEN Frames ELSE {Zeros}

\* lines 172-189: one cycle on the frame, with `scheduled` callbacks waiting;
\* line 189 schedules one more
AnalyzeCycle(frame, sampleRate, scheduled) ==
    /\ dataArray' = frame
    /\ estimates' = Append(estimates, detectPitch(frame, sampleRate))
    /\ sink' = JsReport(detectPitch(frame, sampleRate))
    /\ raf' = scheduled + 1

\* The click handler after `await initAudio()`: lines 124-130.  The globals
\* analyser_ and dataArray_ are as initAudio left them.
StartAfterInit(analyser_, dataArray_, sampleRate, initFailed) ==
    /\ isRunning' = TRUE
    /\ buttonText' = "Stop Tuner"
    /\ analyser' = analyser_
    /\ IF AnalyzeThrows(analyser_, dataArray_)
           THEN /\ console' = "Error starting tuner"
                /\ dataArray' = dataArray_
                /\ UNCHANGED <<estimates, sink, raf>>
           ELSE /\ console' = IF initFailed THEN "Error initializing audio"
                                            ELSE "Button clicked"
                /\ Len(estimates) < MaxCycles
                /\ \E frame \in FramesOf(analyser_) :
                       AnalyzeCycle(frame, sampleRate, raf)

\* A click with isRunning false whose `new AudioContext()` throws: initAudio
\* catches (lines 149-153) and returns, and the handler goes on.  No macrotask
\* runs between the two.
ClickStartNoContext ==
    /\ program = "browser" /\ ~isRunning
    /\ StartAfterInit(analyser, dataArray, audioContext, TRUE)
    /\ UNCHANGED <<program, tunerVars, audioContext, awaiting, sinkAtClear,
                   mapperVars>>

\* A click with isRunning false, up to `await getUserMedia`: lines 120-144
ClickStart ==
    /\ program = "browser" /\ ~isRunning
    /\ awaiting < MaxAwaiting
    /\ console' = "Button clicked"
    /\ \E rate \in SampleRates : audioContext' = rate
    /\ analyser' = "unconnected"
    /\ awaiting' = awaiting + 1
    /\ UNCHANGED <<program, tunerVars, isRunning, buttonText, dataArray, raf,
                   sink, estimates, sinkAtClear, mapperVars>>

\* getUserMedia resolves: lines 145-148, then the handler's lines 124-126
GetUserMediaResolved ==
    /\ program = "browser" /\ awaiting > 0
    /\ awaiting' = awaiting - 1
    /\ StartAfterInit("connected", Zeros, audioContext, FALSE)
    /\ UNCHANGED <<program, tunerVars, audioContext, sinkAtClear, mapperVars>>

\* getUserMedia rejects: lines 149-153 (isRunning = false, 'Start Tuner'),
\* then the handler's lines 124-126 all the same
GetUserMediaRejected ==
    /\ program = "browser" /\ awaiting > 0
    /\ awaiting' = awaiting - 1
    /\ StartAfterInit(analyser, dataArray, audioContext, TRUE)
    /\ UNCHANGED <<program, tunerVars, audioContext, sinkAtClear, mapperVars>>

\* A click with isRunning true: lines 131-134
ClickStop ==
    /\ program = "browser" /\ isRunning
    /\ console' = "Button clicked"
    /\ isRunning' = FALSE
    /\ buttonText' = "Start Tuner"
    /\ UNCHANGED <<program, tunerVars, audioContext, analyser, dataArray,
                   awaiting, raf, sink, estimates, sinkAtClear, mapperVars>>

\* An animation frame runs one scheduled analyze(): line 170 returns when
\* isRunning is false, else the cycle runs and schedules itself again.
Tick ==
    /\ program = "browser" /\ raf > 0
    /\ IF ~isRunning
           THEN /\ raf' = raf - 1
                /\ UNCHANGED <<dataArray, estimates, sink>>
           ELSE /\ Len(estimates) < MaxCycles
                /\ \E frame \in FramesOf(analyser) :
                       AnalyzeCycle(frame, audioContext, raf - 1)
    /\ UNCHANGED <<program, tunerVars, isRunning, buttonText, audioContext,
                   analyser, awaiting, console, sinkAtClear, mapperVars>>

BrowserNext ==
    \/ ClickStartNoContext \/ ClickStart \/ GetUserMediaResolved
    \/ GetUserMediaRejected \/ ClickStop \/ Tick

(***************************************************************************)
(* The Note Mapper of both programs applied to one frequency.              *)
(***************************************************************************)
MapPy ==
    /\ program = "mapper" /\ pyNote = "none"
    /\ pyNote' = freq_to_note(frequency)
    /\ UNCHANGED <<program, tunerVars, browserVars, sink, estimates, sinkAtClear,
                   frequency, jsNote>>

MapJs ==
    /\ program = "mapper" /\ jsNote.note = "none"
    /\ jsNote' = getNote(frequency)
    /\ UNCHANGED <<program, tunerVars, browserVars, sink, estimates, sinkAtClear,
                   frequency, pyNote>>

MapperNext == MapPy \/ MapJs

(***************************************************************************)
(* Initial states and specifications.                                      *)
(***************************************************************************)
\* what every program starts from
InitCommon ==
    /\ running = FALSE /\ stream = "none" /\ thread = "unset" /\ pa = "ready"
    /\ wpc = "idle" /\ data = NoData
    /\ isRunning = FALSE /\ buttonText = "Start Tuner" /\ audioContext = 0
    /\ analyser = "undefined" /\ dataArray = << >> /\ awaiting = 0 /\ raf = 0
    /\ console = "DOM loaded"
    /\ sink = << >> /\ estimates = << >> /\ sinkAtClear = -1
    /\ pyNote = "none" /\ jsNote = [note |-> "none", freq |-> Infinity]

\* tuner.py after Tuner() is constructed (lines 29-36, 118), or the page
\* after DOMContentLoaded (lines 104-136)
Init ==
    /\ InitCommon
    /\ \/ program = "tuner" /\ mpc = "start"
       \/ program = "browser" /\ mpc = "absent"
    /\ frequency = CentiHz(0)

Next == TunerNext \/ BrowserNext

Spec == Init /\ [][Next]_vars

\* the Note Mapper on every frequency of 0.01 Hz .. MaxCentiHz / 100 Hz
InitNote ==
    /\ InitCommon
    /\ program = "mapper" /\ mpc = "absent"
    /\ \E c \in 1..MaxCentiHz : frequency = CentiHz(c)

SpecNote == InitNote /\ [][MapperNext]_vars


(***************************************************************************)
(* What the claims speak of.                                               *)
(***************************************************************************)
IsResult(line) == line.kind = "result"
Results(lines) == SelectSeq(lines, IsResult)
ResultsAfterClear == Results(SubSeq(sink, sinkAtClear + 1, Len(sink)))
LastEstimate == estimates[Len(estimates)]

\* f > 20 Hz, as the claims state the threshold
Above20(f) == f.d = 0 \/ f.n > 20 * f.d

\* The entry the Note Mapper is to return: the one nearest to f, the first of
\* them in table order when two are equally near (f is finite).
Distance(i, f) == Abs(100 * f.n - NOTE_FREQUENCIES[i].freq * f.d)
Nearest(f) ==
    NOTE_FREQUENCIES[CHOOSE i \in 1..Len(NOTE_FREQUENCIES) :
        \A j \in 1..Len(NOTE_FREQUENCIES) :
            /\ Distance(i, f) <= Distance(j, f)
            /\ j < i => Distance(i, f) < Distance(j, f)]

\* no lag in [1, N/2) has a strictly positive correlation sum
NoPositiveCorrelation(buffer) ==
    \A lag \in 1..(Len(buffer) \div 2 - 1) : Correlation(buffer, lag) <= 0

\* C1: in both programs the reported results are, in order, the estimates of
\* the cycles so far that are strictly above 20 Hz: a cycle whose estimate is
\* at most 20 Hz reports nothing, one whose estimate is above reports exactly
\* one result, which carries that estimate.
C1_ResultIffAbove20 ==
    /\ Len(Results(sink)) = Len(SelectSeq(estimates, Above20))
    /\ \A i \in 1..Len(Results(sink)) :
           Results(sink)[i].freq = SelectSeq(estimates, Above20)[i]

\* C1 witness: the page has run a cycle whose estimate was at most 20 Hz and
\* one whose estimate was above, and reported only the latter.
C1_Witness ==
    /\ program = "browser"
    /\ \E i \in 1..Len(estimates) : ~Above20(estimates[i])
    /\ \E i \in 1..Len(estimates) : Above20(estimates[i])
    /\ Len(sink) = 1

\* C2: stop() releases the stream only after the worker has left its loop:
\* the stream is stopped or closed only when the worker has exited, the
\* worker is never about to read from a stream that is not open, and nothing
\* is reported once stop() has returned.
C2_ReleaseAfterWorkerExit ==
    /\ [](program = "tuner" =>
            /\ stream \in {"stopped", "closed"} => wpc \in {"done", "failed"}
            /\ wpc \in {"read", "analyze"} => stream = "open")
    /\ [][mpc = "exited" => sink' = sink]_vars

\* C2 witness: stop() has returned with the stream closed after a worker that
\* was in flight when the flag was cleared and reported one more result.
C2_Witness ==
    /\ mpc = "exited" /\ stream = "closed" /\ wpc = "done"
    /\ Len(ResultsAfterClear) = 1

\* C3: after a failed read the loop has stopped, the running flag is cleared,
\* the stream is released and the error has reached the owner of the Tuner
\* (the main thread, which then leaves its sleep loop).
C3_DeviceErrorLeadsToIdle ==
    (program = "tuner" /\ wpc = "failed" /\ sinkAtClear = -1) =>
        /\ ~running
        /\ stream \in {"stopped", "closed"}
        /\ mpc # "sleep"

\* C4: both variants of the Note Mapper return the entry nearest to the
\* frequency, the first in table order on a tie.
C4_NearestFirstOnTie ==
    /\ pyNote # "none" => pyNote = Nearest(frequency).note
    /\ jsNote.note # "none" =>
           jsNote = [note |-> Nearest(frequency).note,
                     freq |-> CentiHz(Nearest(frequency).freq)]

\* C5: a cycle of the page on a frame with no positive correlation at any
\* lag in [1, N/2) yields a finite "no pitch" estimate that does not pass
\* the 20 Hz threshold.
C5_NoPitchOnSilence ==
    (program = "browser" /\ estimates # << >> /\ dataArray # << >>
        /\ NoPositiveCorrelation(dataArray)) =>
        /\ IsFinite(LastEstimate)
        /\ ~Above20(LastEstimate)

\* C6: a cycle of the worker on a silent frame reports nothing.
C6_SilentFrameReportsNothing ==
    [][(program = "tuner" /\ wpc = "analyze" /\ data = Silence) => sink' = sink]_vars

\* C7: the flag is read only where a cycle starts.  A cycle that has begun
\* goes on to its read, its analysis and its report whatever the flag; the
\* worker leaves the loop only from the loop test, with the flag cleared, and
\* never comes back; at most one result is reported after stop() cleared the
\* flag.
C7_CooperativeCancellation ==
    /\ [](sinkAtClear >= 0 => Len(ResultsAfterClear) <= 1)
    /\ [][/\ wpc = "read" => wpc' \in {"read", "analyze", "failed"}
          /\ wpc = "analyze" => wpc' \in {"analyze", "loop"}
          /\ wpc = "done" => wpc' = "done"
          /\ (wpc # "done" /\ wpc' = "done") => (wpc = "loop" /\ ~running)
          /\ (wpc = "loop" /\ ~running) => wpc' \in {"loop", "done"}]_vars

\* C7 witness: the worker has left the loop after reporting the one result of
\* the cycle that was in flight when the flag was cleared.
C7_Witness ==
    /\ sinkAtClear >= 0 /\ wpc = "done" /\ ~running
    /\ Len(ResultsAfterClear) = 1
    /\ Len(estimates) >= 2

\* C8: on the reference frequency of an entry both variants return that
\* entry; 440.0 Hz gives "A4" with reference frequency 440.00.
C8_ExactFrequencyGivesEntry ==
    \A i \in 1..Len(NOTE_FREQUENCIES) :
        frequency = CentiHz(NOTE_FREQUENCIES[i].freq) =>
            /\ pyNote # "none" => pyNote = NOTE_FREQUENCIES[i].note
            /\ jsNote.note # "none" =>
                   jsNote = [note |-> NOTE_FREQUENCIES[i].note,
                             freq |-> CentiHz(NOTE_FREQUENCIES[i].freq)]

\* C8 witness: both variants have mapped 440.0 Hz to A4.
C8_Witness ==
    /\ frequency = CentiHz(44000)
    /\ pyNote = "A4"
    /\ jsNote = [note |-> "A4", freq |-> CentiHz(44000)]

\* C9: at most one analyze() callback is scheduled at any time.
C9_AtMostOneCallback == program = "browser" => raf <= 1

\* C10: once a click handler whose initAudio() failed has finished, the page
\* is not running, the button reads 'Start Tuner', and analyze() was not
\* called without an analyser and a buffer (which makes it throw).
C10_InitFailureLeavesStopped ==
    (program = "browser"
        /\ console \in {"Error initializing audio", "Error starting tuner"}) =>
        /\ ~isRunning
        /\ buttonText = "Start Tuner"
        /\ console # "Error starting tuner"

====
